---- MODULE Spec2Model ----
(***************************************************************************)
(* Model of geo_converter: the ReverseGeocoder client (geocoder.py) and    *)
(* the two batch loops that drive it (process_geocoding in app.py and      *)
(* ReverseGeocoder.process_csv).                                            *)
(*                                                                         *)
(* Coordinates are integers in units of 1e-6 degree, so that rounding to   *)
(* four decimals is rounding to a multiple of 100.                         *)
(***************************************************************************)
EXTENDS Integers, Sequences, FiniteSets, TLC

VARIABLES
    cache, cache_hits, cache_misses,              \* ReverseGeocoder fields
    pc, lat, lon, max_retries, attempt,           \* frame of reverse_geocode
    last_error, data, ret,
    hit, requests, slept, log,                    \* observation of one call
    calls, outcome, faults, stats,                \* the caller and the network
    last_op, dropped, started,
    entry, b_pc, df, results, processed,          \* one batch run
    output_file, saved, output_df, error,
    columns, lat_column, lon_column,              \* df.columns and the settings
    successful_count, cache_efficiency,           \* what a finished run reports
    download, on_disk

client_vars == <<cache, cache_hits, cache_misses>>
frame_vars  == <<pc, lat, lon, max_retries, attempt, last_error, data, ret>>
obs_vars    == <<hit, requests, slept, log>>
env_vars    == <<calls, outcome, stats, last_op, dropped, started>>
schema_vars == <<columns, lat_column, lon_column>>
report_vars == <<successful_count, cache_efficiency, download>>
batch_vars  == <<entry, b_pc, df, results, processed, output_file, saved,
                 output_df, error, schema_vars, report_vars, on_disk>>
vars == <<client_vars, frame_vars, obs_vars, env_vars, faults, batch_vars>>

---------------------------------------------------------------------------
(* Bounds of the model *)

MaxCalls == 3          \* reverse_geocode calls made by the direct caller
MaxRetriesArg == 3     \* largest max_retries argument the caller passes
MaxFaults == 3         \* failing or unusable responses the network gives
MaxRows == 52          \* rows of the largest input table
MaxRenamedRows == 3    \* ... of the largest table with other column names

---------------------------------------------------------------------------
(* Values *)

None == "<None>"          \* Python None / JSON null
Absent == "<absent>"      \* key not present in a dict
EmptyStr == ""

\* Sample coordinates: NYa and NYb differ but round to the same key.
NYa == <<40712800, -74006000>>
NYb == <<40712804, -74006001>>
LDN == <<51507400, -127800>>
Coords == {NYa, NYb, LDN}

\* round(x, 4): to the nearest multiple of 100 micro-degrees, ties to even.
Round4(x) ==
    LET q == x \div 100
        r == x % 100
    IN  IF r < 50 THEN q * 100
        ELSE IF r > 50 THEN (q + 1) * 100
        ELSE IF q % 2 = 0 THEN q * 100 ELSE (q + 1) * 100

CacheKey(la, lo) == <<Round4(la), Round4(lo)>>

\* str.upper() on the strings that occur.
Upper(s) ==
    CASE s = "fr" -> "FR"
      [] s = "us" -> "US"
      [] OTHER    -> s

\* requests.exceptions.RequestException instances, by their str().
RequestErrors == {"Read timed out", "503 Server Error"}

\* str() of the JSONDecodeError response.json() raises on an undecodable body.
JsonError == "Expecting value"

\* f'error: {str(last_error)}'
ErrorStatus(e) ==
    CASE e = "Read timed out"   -> "error: Read timed out"
      [] e = "503 Server Error" -> "error: 503 Server Error"
      [] e = JsonError          -> "error: Expecting value"
      [] e = None               -> "error: None"

IsErrorStatus(s) ==
    s \in {ErrorStatus(e) : e \in RequestErrors \cup {JsonError, None}}

---------------------------------------------------------------------------
(* Provider responses *)

AddrKeys == {"city", "town", "village", "municipality", "hamlet",
             "state", "country", "country_code", "postcode"}

EmptyAddress == [k \in AddrKeys |-> Absent]

AddrParis == [EmptyAddress EXCEPT !["city"] = "Paris",
                                  !["town"] = "Montmartre",
                                  !["state"] = "Ile-de-France",
                                  !["country"] = "France",
                                  !["country_code"] = "fr",
                                  !["postcode"] = "75004"]
AddrTown == [EmptyAddress EXCEPT !["town"] = "Springfield",
                                 !["village"] = "Shelbyville"]
AddrNullCode == [EmptyAddress EXCEPT !["hamlet"] = "Nowhere",
                                     !["country_code"] = None]

BodyParis     == [json |-> "object", has_address |-> TRUE,
                  address |-> AddrParis, display_name |-> "Paris, France"]
BodyTown      == [json |-> "object", has_address |-> TRUE,
                  address |-> AddrTown, display_name |-> Absent]
BodyNoAddress == [json |-> "object", has_address |-> FALSE,
                  address |-> EmptyAddress, display_name |-> Absent]
BodyNullCode  == [json |-> "object", has_address |-> TRUE,
                  address |-> AddrNullCode, display_name |-> "Nowhere"]
BodyArray     == [json |-> "array", has_address |-> FALSE,
                  address |-> EmptyAddress, display_name |-> Absent]
BodyInvalid   == [json |-> "invalid", has_address |-> FALSE,
                  address |-> EmptyAddress, display_name |-> Absent]

GoodBodies == {BodyParis, BodyTown, BodyNoAddress}
BadBodies  == {BodyNullCode, BodyArray, BodyInvalid}

\* What session.get + raise_for_status gives: a RequestException, or a 2xx body.
Failure(e) == [kind |-> "exception", error |-> e, body |-> BodyNoAddress]
Http200(b) == [kind |-> "http200", error |-> None, body |-> b]

FailResponses == {Failure(e) : e \in RequestErrors}
AllResponses  == FailResponses \cup {Http200(b) : b \in GoodBodies \cup BadBodies}

IsFault(resp) == resp.kind = "exception" \/ resp.body \in BadBodies

---------------------------------------------------------------------------
(* Pure parts of reverse_geocode *)

\* Mutant of city_fields: village looked up before town.
city_fields_village_first ==
    <<"city", "village", "town", "municipality", "hamlet">>

city_fields == <<"city", "town", "village", "municipality", "hamlet">>

RECURSIVE ExtractFrom(_, _)
ExtractFrom(address, i) ==
    IF i > Len(city_fields) THEN None
    ELSE IF address[city_fields[i]] # Absent THEN address[city_fields[i]]
    ELSE ExtractFrom(address, i + 1)

_extract_city(address) == ExtractFrom(address, 1)

\* dict.get(key): None when absent.
DictGet(d, k) == IF d[k] = Absent THEN None ELSE d[k]

\* address.get('country_code', ''): the empty string when absent.
CountryCodeRaw(address) ==
    IF address["country_code"] = Absent THEN EmptyStr ELSE address["country_code"]

\* data.get('address', {})
AddressOf(body) == IF body.has_address THEN body.address ELSE EmptyAddress

SuccessResult(la, lo, body) ==
    LET address == AddressOf(body)
    IN  [latitude     |-> la,
         longitude    |-> lo,
         city         |-> _extract_city(address),
         state        |-> DictGet(address, "state"),
         country      |-> DictGet(address, "country"),
         country_code |-> Upper(CountryCodeRaw(address)),
         postcode     |-> DictGet(address, "postcode"),
         display_name |-> IF body.display_name = Absent THEN None
                          ELSE body.display_name,
         status       |-> "success"]

\* Mutant of ErrorResult: country_code kept as the empty string.
ErrorResultEmptyCode(la, lo, e) ==
    [latitude     |-> la,
     longitude    |-> lo,
     city         |-> None,
     state        |-> None,
     country      |-> None,
     country_code |-> EmptyStr,
     postcode     |-> None,
     display_name |-> None,
     status       |-> ErrorStatus(e)]

\* Lines 106-116.
ErrorResult(la, lo, e) ==
    [latitude     |-> la,
     longitude    |-> lo,
     city         |-> None,
     state        |-> None,
     country      |-> None,
     country_code |-> None,
     postcode     |-> None,
     display_name |-> None,
     status       |-> ErrorStatus(e)]

\* The value of `ret` while no call has returned.
NoResult == [ErrorResult(0, 0, None) EXCEPT !.status = "<no result>"]

\* An exception other than RequestException leaving reverse_geocode.
Raised(exc) == [ErrorResult(0, 0, None) EXCEPT !.status = exc]
Exceptions == {"AttributeError", "JSONDecodeError"}

\* What lines 73-95 do with a response: the exception the except clause
\* catches, a result, or an exception that is not a RequestException.
\* response.json() on an undecodable body raises a JSONDecodeError that is a
\* RequestException only from requests 2.27 on: both builds are possible.
Outcomes(resp, la, lo) ==
    IF resp.kind = "exception"
    THEN {[kind |-> "except", error |-> resp.error, result |-> NoResult]}
    ELSE IF resp.body.json = "invalid"
    THEN {[kind |-> "except", error |-> JsonError, result |-> NoResult],
          [kind |-> "raise", error |-> "JSONDecodeError", result |-> NoResult]}
    ELSE IF resp.body.json = "array"
    THEN {[kind |-> "raise", error |-> "AttributeError", result |-> NoResult]}
    ELSE IF CountryCodeRaw(AddressOf(resp.body)) = None
    THEN {[kind |-> "raise", error |-> "AttributeError", result |-> NoResult]}
    ELSE {[kind |-> "return", error |-> None,
           result |-> SuccessResult(la, lo, resp.body)]}

\* 2 ** (attempt + 1)
RECURSIVE Pow2(_)
Pow2(n) == IF n = 0 THEN 1 ELSE 2 * Pow2(n - 1)

\* Mutant of wait_time: 2 ** attempt.
wait_time_from_one(att) == Pow2(att)

wait_time(att) == Pow2(att + 1)

RateLimitSleep == 1

\* Mutant of StoreInCache: nothing is stored.
StoreInCacheSkip(c, key, result) == c

\* Mutant of StoreInCache: the key is the call's unrounded coordinate.
StoreInCacheRawKey(c, key, result) ==
    LET raw == <<result.latitude, result.longitude>>
    IN  [k \in DOMAIN c \cup {raw} |-> IF k = raw THEN result ELSE c[k]]

\* Line 93: self.cache[cache_key] = result
StoreInCache(c, key, result) ==
    [k \in DOMAIN c \cup {key} |-> IF k = key THEN result ELSE c[k]]

---------------------------------------------------------------------------
(* ReverseGeocoder: the steps of one reverse_geocode call *)

Event(op, s) == [op |-> op, s |-> s]

\* Mutant of Rehydrate: the cached template returned as stored.
RehydrateStale(cached_result, la, lo) == cached_result

\* Lines 49-51: a copy of the cached template with the call's own coordinates.
Rehydrate(cached_result, la, lo) ==
    [cached_result EXCEPT !.latitude = la, !.longitude = lo]

\* Mutant of ReturnError: the error result is stored like a success.
ReturnErrorCached(la, lo, e) ==
    /\ pc' = "returned"
    /\ ret' = ErrorResult(la, lo, e)
    /\ cache' = StoreInCache(cache, CacheKey(la, lo), ErrorResult(la, lo, e))

\* Lines 105-118: all retries failed; the cache is not written.
ReturnError(la, lo, e) ==
    /\ pc' = "returned"
    /\ ret' = ErrorResult(la, lo, e)
    /\ UNCHANGED cache

\* Mutant of reverse_geocode: the hit path works on the cached dict itself
\* instead of a copy, so the template takes the call's coordinates.
reverse_geocode_no_copy(la, lo, n) ==
    LET cache_key == CacheKey(la, lo)
    IN  /\ pc = "idle"
        /\ lat' = la /\ lon' = lo /\ max_retries' = n
        /\ log' = <<>>
        /\ attempt' = 0
        /\ last_error' = None
        /\ IF cache_key \in DOMAIN cache
           THEN /\ cache_hits' = cache_hits + 1
                /\ ret' = Rehydrate(cache[cache_key], la, lo)
                /\ cache' = StoreInCache(cache, cache_key,
                                         Rehydrate(cache[cache_key], la, lo))
                /\ hit' = TRUE
                /\ pc' = "returned"
                /\ UNCHANGED cache_misses
           ELSE /\ cache_misses' = cache_misses + 1
                /\ hit' = FALSE
                /\ UNCHANGED cache_hits
                /\ IF n > 0
                   THEN pc' = "sleep" /\ ret' = NoResult /\ UNCHANGED cache
                   ELSE ReturnError(la, lo, None)
        /\ UNCHANGED <<data, requests, slept, faults>>

\* Lines 43-64: the cache lookup, and on a miss the start of the retry loop
\* (for max_retries = 0 the loop body never runs and lines 105-118 follow).
reverse_geocode(la, lo, n) ==
    LET cache_key == CacheKey(la, lo)
    IN  /\ pc = "idle"
        /\ lat' = la /\ lon' = lo /\ max_retries' = n
        /\ log' = <<>>
        /\ attempt' = 0
        /\ last_error' = None
        /\ IF cache_key \in DOMAIN cache
           THEN /\ cache_hits' = cache_hits + 1
                /\ ret' = Rehydrate(cache[cache_key], la, lo)
                /\ hit' = TRUE
                /\ pc' = "returned"
                /\ UNCHANGED <<cache, cache_misses>>
           ELSE /\ cache_misses' = cache_misses + 1
                /\ hit' = FALSE
                /\ UNCHANGED cache_hits
                /\ IF n > 0
                   THEN pc' = "sleep" /\ ret' = NoResult /\ UNCHANGED cache
                   ELSE ReturnError(la, lo, None)
        /\ UNCHANGED <<data, requests, slept, faults>>

\* Mutant of Sleep: the pause is taken on retries only.
SleepOnRetryOnly ==
    /\ pc = "sleep"
    /\ pc' = "get"
    /\ slept' = IF attempt > 0 THEN slept + RateLimitSleep ELSE slept
    /\ log' = IF attempt > 0 THEN Append(log, Event("sleep", RateLimitSleep))
              ELSE log
    /\ UNCHANGED <<client_vars, lat, lon, max_retries, attempt, last_error,
                   data, ret, hit, requests, faults>>

\* Line 70: time.sleep(1) before every attempt.
Sleep ==
    /\ pc = "sleep"
    /\ pc' = "get"
    /\ slept' = slept + RateLimitSleep
    /\ log' = Append(log, Event("sleep", RateLimitSleep))
    /\ UNCHANGED <<client_vars, lat, lon, max_retries, attempt, last_error,
                   data, ret, hit, requests, faults>>

\* Lines 72-103 and 105-118: one request and what follows from its response.
Get(resp) ==
    /\ pc = "get"
    /\ IsFault(resp) => faults < MaxFaults
    /\ faults' = IF IsFault(resp) THEN faults + 1 ELSE faults
    /\ requests' = requests + 1
    /\ slept' = 0
    /\ log' = Append(log, Event("get", 0))
    /\ data' = resp.body
    /\ \E o \in Outcomes(resp, lat, lon) :
          CASE o.kind = "return" ->
                 /\ cache' = StoreInCache(cache, CacheKey(lat, lon), o.result)
                 /\ ret' = o.result
                 /\ pc' = "returned"
                 /\ UNCHANGED last_error
            [] o.kind = "except" ->
                 /\ last_error' = o.error
                 /\ IF attempt < max_retries - 1
                    THEN pc' = "backoff" /\ UNCHANGED <<ret, cache>>
                    ELSE ReturnError(lat, lon, o.error)
            [] o.kind = "raise" ->
                 /\ ret' = Raised(o.error)
                 /\ pc' = "raised"
                 /\ UNCHANGED <<cache, last_error>>
    /\ UNCHANGED <<cache_hits, cache_misses, lat, lon, max_retries, attempt, hit>>

\* Lines 99-103: the exponential backoff before the next attempt.
Backoff ==
    /\ pc = "backoff"
    /\ pc' = "sleep"
    /\ slept' = slept + wait_time(attempt)
    /\ log' = Append(log, Event("sleep", wait_time(attempt)))
    /\ attempt' = attempt + 1
    /\ UNCHANGED <<client_vars, lat, lon, max_retries, last_error, data, ret,
                   hit, requests, faults>>

\* The call has returned to its caller: its frame is gone.
PopFrame ==
    /\ pc' = "idle"
    /\ lat' = 0 /\ lon' = 0 /\ max_retries' = 0 /\ attempt' = 0
    /\ last_error' = None /\ data' = BodyNoAddress /\ ret' = NoResult
    /\ hit' = FALSE /\ log' = <<>>

\* Mutant of get_cache_stats: total_requests counts the misses only.
get_cache_stats_misses_only ==
    [hits |-> cache_hits,
     misses |-> cache_misses,
     size |-> Cardinality(DOMAIN cache),
     total_requests |-> cache_misses]

get_cache_stats ==
    [hits |-> cache_hits,
     misses |-> cache_misses,
     size |-> Cardinality(DOMAIN cache),
     total_requests |-> cache_hits + cache_misses]

\* Mutant of clear_cache: the counters are left as they are.
clear_cache_keeps_counters ==
    /\ cache' = [k \in {} |-> NoResult]
    /\ UNCHANGED <<cache_hits, cache_misses>>

clear_cache ==
    /\ cache' = [k \in {} |-> NoResult]
    /\ cache_hits' = 0
    /\ cache_misses' = 0

---------------------------------------------------------------------------
(* A caller that uses one client directly *)

\* What the caller has seen of each rounded coordinate since construction or
\* the last clear_cache: how its latest call ended. The caller also notes the
\* method it called last (last_op), the keys the cache held when it was last
\* cleared (dropped, until the next call has returned), and the number of reverse_geocode
\* calls it has made since construction or the last clear_cache (started).
OutcomeOf(p, r) ==
    IF p = "raised" THEN "raised"
    ELSE IF r.status = "success" THEN "success" ELSE "error"

Record(o, key, what) == [k \in DOMAIN o \cup {key} |-> IF k = key THEN what ELSE o[k]]

NoStats == [hits |-> 0, misses |-> 0, size |-> 0, total_requests |-> 0]

CallerCall ==
    /\ b_pc = "off"
    /\ calls < MaxCalls
    /\ \E c \in Coords, n \in 0..MaxRetriesArg : reverse_geocode(c[1], c[2], n)
    /\ stats' = NoStats
    /\ last_op' = "reverse_geocode"
    /\ started' = started + 1
    /\ UNCHANGED <<calls, outcome, dropped, batch_vars>>

CallerReturn ==
    /\ b_pc = "off"
    /\ pc \in {"returned", "raised"}
    /\ PopFrame
    /\ calls' = calls + 1
    /\ outcome' = Record(outcome, CacheKey(lat, lon), OutcomeOf(pc, ret))
    /\ dropped' = {}
    /\ UNCHANGED <<client_vars, requests, slept, stats, last_op, started,
                   faults, batch_vars>>

CallerStats ==
    /\ b_pc = "off"
    /\ pc = "idle"
    /\ stats' = get_cache_stats
    /\ last_op' = "get_cache_stats"
    /\ UNCHANGED <<client_vars, frame_vars, obs_vars, calls, outcome, dropped,
                   started, faults, batch_vars>>

CallerClear ==
    /\ b_pc = "off"
    /\ pc = "idle"
    /\ clear_cache
    /\ outcome' = [k \in {} |-> "none"]
    /\ stats' = NoStats
    /\ last_op' = "clear_cache"
    /\ dropped' = DOMAIN cache
    /\ started' = 0
    /\ UNCHANGED <<frame_vars, obs_vars, calls, faults, batch_vars>>

NetworkStep ==
    /\ \/ Sleep
       \/ \E resp \in AllResponses : Get(resp)
       \/ Backoff
    /\ UNCHANGED <<env_vars, batch_vars>>

\* ReverseGeocoder.__init__ (lines 26-28), and no call in progress.
ClientStart(body) ==
    /\ cache = [k \in {} |-> NoResult]
    /\ cache_hits = 0
    /\ cache_misses = 0
    /\ pc = "idle" /\ lat = 0 /\ lon = 0 /\ max_retries = 0 /\ attempt = 0
    /\ last_error = None /\ data = body /\ ret = NoResult
    /\ hit = FALSE /\ requests = 0 /\ slept = 0 /\ log = <<>>
    /\ calls = 0 /\ outcome = [k \in {} |-> "none"] /\ faults = 0
    /\ stats = [hits |-> 0, misses |-> 0, size |-> 0, total_requests |-> 0]
    /\ last_op = "__init__" /\ dropped = {} /\ started = 0

ClientInit == ClientStart(BodyNoAddress)


BatchOff ==
    /\ entry = "none" /\ b_pc = "off" /\ df = <<>> /\ results = <<>>
    /\ processed = 0 /\ output_file = <<>> /\ saved = <<>> /\ output_df = <<>>
    /\ error = None
    /\ columns = <<>> /\ lat_column = "latitude" /\ lon_column = "longitude"
    /\ successful_count = 0 /\ cache_efficiency = [num |-> 0, den |-> 0]
    /\ download = <<>> /\ on_disk = {}

---------------------------------------------------------------------------
(* Tables *)

NaN == "<NaN>"

\* pd.DataFrame(results).drop(['latitude', 'longitude'], axis=1), row by row.
\* (A frame built from an empty list has no columns: see DropRaises.)
DropLatLon(r) ==
    [city |-> r.city, state |-> r.state, country |-> r.country,
     country_code |-> r.country_code, postcode |-> r.postcode,
     display_name |-> r.display_name, status |-> r.status]

DropRaises(res) == res = <<>>

MissingLeft == [id |-> NaN, latitude |-> NaN, longitude |-> NaN]
MissingRight == [city |-> NaN, state |-> NaN, country |-> NaN,
                 country_code |-> NaN, postcode |-> NaN,
                 display_name |-> NaN, status |-> NaN]

JoinRow(a, b) ==
    [id |-> a.id, latitude |-> a.latitude, longitude |-> a.longitude,
     city |-> b.city, state |-> b.state, country |-> b.country,
     country_code |-> b.country_code, postcode |-> b.postcode,
     display_name |-> b.display_name, status |-> b.status]

\* Mutant of Concat: the results frame indexed from 1, the input from 0.
ConcatShifted(left, res) ==
    [i \in 1..(Len(res) + 1) |->
       JoinRow(IF i <= Len(left) THEN left[i] ELSE MissingLeft,
               IF i > 1 THEN DropLatLon(res[i - 1]) ELSE MissingRight)]

\* pd.concat([left, right.drop(...)], axis=1): an outer join on the row index.
Concat(left, res) ==
    LET n == IF Len(left) > Len(res) THEN Len(left) ELSE Len(res)
    IN  [i \in 1..n |->
           JoinRow(IF i <= Len(left) THEN left[i] ELSE MissingLeft,
                   IF i <= Len(res) THEN DropLatLon(res[i]) ELSE MissingRight)]

\* df.iloc[:k]
iloc(table, k) == SubSeq(table, 1, IF k < Len(table) THEN k ELSE Len(table))

---------------------------------------------------------------------------
(* The batch loops: process_geocoding (entry "ui") and process_csv ("csv") *)

batch_save_interval == 50
DefaultMaxRetries == 3

total_rows == Len(df)

\* Mutant of SnapshotDue: the save on the final row is left out.
SnapshotDueIntervalOnly(p) ==
    /\ entry = "ui"
    /\ p % batch_save_interval = 0

\* Line 154 of app.py; process_csv saves nothing inside its loop.
SnapshotDue(p) ==
    /\ entry = "ui"
    /\ (p % batch_save_interval = 0 \/ p = total_rows)

\* str.lower() on the column names that occur.
Lower(s) ==
    CASE s = "Latitude"  -> "latitude"
      [] s = "LONGITUDE" -> "longitude"
      [] s = "LAT"       -> "lat"
      [] OTHER           -> s

\* app.py 64-68: column_map = {col.lower(): col ...}; column_map.get(
\* name.lower()). A later column replaces an earlier one with the same key.
column_map_get(cols, name) ==
    LET found == {i \in DOMAIN cols : Lower(cols[i]) = Lower(name)}
    IN  IF found = {} THEN None
        ELSE cols[CHOOSE i \in found : \A j \in found : j <= i]

\* geocoder.py 177: `name not in df.columns`.
not_in_columns(name, cols) == \A i \in DOMAIN cols : cols[i] # name

\* What the two entry points answer when a column is not found.
ColumnsNotFound == "Columns not found in CSV file!"
ValueError == "ValueError: Columns not found in CSV"
ValidationErrors == {ColumnsNotFound, ValueError}

\* app.py 63-87 (st.error, st.info and return; else the button) and
\* geocoder.py 177-178 (raise ValueError).
Validate ==
    /\ b_pc = "start"
    /\ IF entry = "ui"
       THEN IF \/ column_map_get(columns, lat_column) = None
               \/ column_map_get(columns, lon_column) = None
            THEN b_pc' = "Failed" /\ error' = ColumnsNotFound
            ELSE b_pc' = "ready" /\ UNCHANGED error
       ELSE IF \/ not_in_columns(lat_column, columns)
               \/ not_in_columns(lon_column, columns)
            THEN b_pc' = "Failed" /\ error' = ValueError
            ELSE b_pc' = "ready" /\ UNCHANGED error
    /\ UNCHANGED <<client_vars, frame_vars, obs_vars, env_vars, faults, entry, df,
                   results, processed, output_file, saved, output_df,
                   schema_vars, report_vars, on_disk>>

\* app.py 105-125 / geocoder.py 180-184: the state before the first row.
\* process_geocoding writes the upload to a temporary input file and creates
\* an empty temporary output file.
BatchStart ==
    /\ b_pc = "ready"
    /\ b_pc' = "loop"
    /\ results' = <<>>
    /\ processed' = 0
    /\ successful_count' = 0
    /\ on_disk' = IF entry = "ui" THEN {"input", "output"} ELSE on_disk
    /\ UNCHANGED <<client_vars, frame_vars, obs_vars, env_vars, faults, entry, df,
                   output_file, saved, output_df, error, schema_vars,
                   cache_efficiency, download>>

\* app.py 128-147 / geocoder.py 187-191: the next row's call.
BatchCall ==
    /\ b_pc = "loop"
    /\ Len(results) < total_rows
    /\ LET row == df[Len(results) + 1]
       IN  reverse_geocode(row.latitude, row.longitude, DefaultMaxRetries)
    /\ b_pc' = "call"
    /\ UNCHANGED <<env_vars, entry, df, results, processed, output_file, saved,
                   output_df, error, schema_vars, report_vars, on_disk>>

\* app.py 148-154 / geocoder.py 192-195: the call returned.
BatchAppend ==
    /\ b_pc = "call"
    /\ pc = "returned"
    /\ PopFrame
    /\ results' = Append(results, ret)
    /\ processed' = processed + 1
    /\ b_pc' = IF SnapshotDue(processed + 1) THEN "save" ELSE "loop"
    /\ successful_count' =
          IF entry = "csv" /\ ret.status = "success"
          THEN successful_count + 1 ELSE successful_count
    /\ UNCHANGED <<client_vars, requests, slept, env_vars, faults, entry, df,
                   output_file, saved, output_df, error, schema_vars,
                   cache_efficiency, download, on_disk>>

\* An exception left reverse_geocode: app.py 223-225 reports it (st.error,
\* st.exception, and nothing else: the temporary files stay), process_csv
\* lets it through to its caller. Either way the run is over.
BatchRaise ==
    /\ b_pc = "call"
    /\ pc = "raised"
    /\ PopFrame
    /\ b_pc' = "Failed"
    /\ error' = ret.status
    /\ UNCHANGED <<client_vars, requests, slept, env_vars, faults, entry, df,
                   results, processed, output_file, saved, output_df,
                   schema_vars, report_vars, on_disk>>

\* to_csv opens the path for writing, which truncates it ...
OpenForWrite == output_file' = <<>>
\* ... and then writes the table.
WriteTable(table) == output_file' = table /\ saved' = table

\* app.py 156-158, first half.
SnapshotOpen ==
    /\ b_pc = "save"
    /\ b_pc' = "write"
    /\ OpenForWrite
    /\ UNCHANGED <<client_vars, frame_vars, obs_vars, env_vars, faults, entry, df,
                   results, processed, saved, output_df, error, schema_vars,
                   report_vars, on_disk>>

\* app.py 158-159, second half.
SnapshotWrite ==
    /\ b_pc = "write"
    /\ b_pc' = "loop"
    /\ WriteTable(Concat(iloc(df, processed), results))
    /\ UNCHANGED <<client_vars, frame_vars, obs_vars, env_vars, faults, entry, df,
                   results, processed, output_df, error, schema_vars,
                   report_vars, on_disk>>

\* app.py 161-168 / geocoder.py 197-204: the final table, and the open.
FinalAssemble ==
    /\ b_pc = "loop"
    /\ Len(results) = total_rows
    /\ IF DropRaises(results)
       THEN /\ b_pc' = "Failed"
            /\ error' = "KeyError"
            /\ UNCHANGED <<output_df, output_file, on_disk>>
       ELSE /\ b_pc' = "final_write"
            /\ output_df' = Concat(df, results)
            /\ OpenForWrite
            /\ on_disk' = on_disk \cup {"output"}
            /\ UNCHANGED error
    /\ UNCHANGED <<client_vars, frame_vars, obs_vars, env_vars, faults, entry, df,
                   results, processed, saved, schema_vars, report_vars>>

\* app.py 168 / geocoder.py 204-206, second half: process_csv returns
\* (successful_count, total_count), process_geocoding goes on to report.
FinalWrite ==
    /\ b_pc = "final_write"
    /\ b_pc' = IF entry = "ui" THEN "written" ELSE "Completed"
    /\ WriteTable(output_df)
    /\ UNCHANGED <<client_vars, frame_vars, obs_vars, env_vars, faults, entry, df,
                   results, processed, output_df, error, schema_vars,
                   report_vars, on_disk>>

\* sum(1 for r in results if r['status'] == 'success')
CountSuccess(res) == Cardinality({i \in DOMAIN res : res[i].status = "success"})

\* (hits / total_rows * 100) if total_rows > 0 else 0, as an exact fraction.
Efficiency(hits, total) ==
    IF total > 0 THEN [num |-> hits * 100, den |-> total]
                 ELSE [num |-> 0, den |-> 1]

\* app.py 170-221: the statistics, the download button (which is handed the
\* output file's content), and the removal of both temporary files.
Finish ==
    /\ b_pc = "written"
    /\ b_pc' = "Completed"
    /\ successful_count' = CountSuccess(results)
    /\ cache_efficiency' = Efficiency(cache_hits, total_rows)
    /\ download' = output_file
    /\ output_file' = <<>>
    /\ on_disk' = {}
    /\ UNCHANGED <<client_vars, frame_vars, obs_vars, env_vars, faults, entry, df,
                   results, processed, saved, output_df, error, schema_vars>>

\* The provider as the batch runs see it: one body per place, a timeout, or a
\* body whose country_code is null.
ProviderBody(key) == IF key = CacheKey(LDN[1], LDN[2]) THEN BodyTown ELSE BodyParis

ProviderResponses ==
    {Failure("Read timed out"), Http200(BodyNullCode),
     Http200(ProviderBody(CacheKey(lat, lon)))}

BatchNetworkStep ==
    /\ \/ Sleep
       \/ \E resp \in ProviderResponses : Get(resp)
       \/ Backoff
    /\ UNCHANGED <<env_vars, batch_vars>>

\* One place for a whole save interval, then another one.
LatePattern ==
    [i \in 1..(batch_save_interval + 1) |->
        IF i <= batch_save_interval THEN NYa ELSE LDN]

\* Input tables: n rows that cycle through a pattern of coordinates.
Patterns == {<<NYa, NYb, LDN>>, <<LDN, NYb>>, LatePattern}

\* The column names of the input and the names the run is configured with.
DefaultSchema ==
    [columns |-> <<"id", "latitude", "longitude">>,
     lat_column |-> "latitude", lon_column |-> "longitude"]

Schemas ==
    {DefaultSchema,
     [DefaultSchema EXCEPT !.columns = <<"id", "Latitude", "LONGITUDE">>],
     [DefaultSchema EXCEPT !.columns = <<"id", "lat", "longitude">>],
     [DefaultSchema EXCEPT !.columns = <<"id", "latitude", "lon">>],
     [columns |-> <<"id", "lat", "lon">>, lat_column |-> "LAT",
      lon_column |-> "lon"]}

Table(pattern, n) ==
    [i \in 1..n |->
       LET c == pattern[((i - 1) % Len(pattern)) + 1]
       IN  [id |-> i, latitude |-> c[1], longitude |-> c[2]]]

BatchInit ==
    /\ ClientInit
    /\ entry \in {"ui", "csv"}
    /\ b_pc = "start"
    /\ \E pattern \in Patterns, n \in 0..MaxRows, schema \in Schemas :
          /\ schema # DefaultSchema => n <= MaxRenamedRows
          /\ df = Table(pattern, n)
          /\ columns = schema.columns
          /\ lat_column = schema.lat_column
          /\ lon_column = schema.lon_column
    /\ results = <<>> /\ processed = 0
    /\ output_file = <<>> /\ saved = <<>> /\ output_df = <<>>
    /\ error = None
    /\ successful_count = 0 /\ cache_efficiency = [num |-> 0, den |-> 0]
    /\ download = <<>>
    /\ on_disk = IF entry = "csv" THEN {"input"} ELSE {}

BatchNext ==
    \/ Validate \/ BatchStart \/ BatchCall \/ BatchAppend \/ BatchRaise
    \/ SnapshotOpen \/ SnapshotWrite \/ FinalAssemble \/ FinalWrite
    \/ Finish \/ BatchNetworkStep

BatchSpec == BatchInit /\ [][BatchNext]_vars

Init == ClientInit /\ BatchOff

Next == CallerCall \/ CallerReturn \/ CallerStats \/ CallerClear \/ NetworkStep

Spec == Init /\ [][Next]_vars

---------------------------------------------------------------------------
(* Lines 78-90 on their own: a result built from a decoded response *)

\* The name a response gives under each of the city keys.
PlaceName(k) ==
    CASE k = "city"         -> "Lyon"
      [] k = "town"         -> "Cluny"
      [] k = "village"      -> "Taize"
      [] k = "municipality" -> "Ameugny"
      [] k = "hamlet"       -> "Le Bourg"

\* An address in which each city key is absent, null, or a name.
CityAddress(f) ==
    [k \in AddrKeys |->
        IF k \notin DOMAIN f THEN Absent
        ELSE IF f[k] = "absent" THEN Absent
        ELSE IF f[k] = "null" THEN None
        ELSE PlaceName(k)]

CityInit ==
    /\ \E f \in [{"city", "town", "village", "municipality", "hamlet"}
                  -> {"absent", "null", "name"}] :
          ClientStart([json |-> "object", has_address |-> TRUE,
                       address |-> CityAddress(f), display_name |-> Absent])
    /\ BatchOff

CityExtract ==
    /\ pc = "idle"
    /\ pc' = "returned"
    /\ ret' = SuccessResult(lat, lon, data)
    /\ UNCHANGED <<client_vars, lat, lon, max_retries, attempt, last_error,
                   data, obs_vars, env_vars, faults, batch_vars>>

CityNext == CityExtract

CitySpec == CityInit /\ [][CityNext]_vars

---------------------------------------------------------------------------
(* Properties *)

CallStarts == pc = "idle" /\ pc' # "idle"

HitEffects ==
    /\ pc' = "returned"
    /\ requests' = requests
    /\ cache_hits' = cache_hits + 1
    /\ cache_misses' = cache_misses
    /\ ret'.latitude = lat' /\ ret'.longitude = lon'

Gets(l) == Cardinality({i \in DOMAIN l : l[i].op = "get"})

LocationFieldsNull(r) ==
    /\ r.city = None /\ r.state = None /\ r.country = None
    /\ r.country_code = None /\ r.postcode = None /\ r.display_name = None

\* C1 as stated: whenever a rounded coordinate has been queried before on this
\* client (no clear_cache since), the next call for it is a cache hit: no
\* request, hits + 1, misses unchanged, and the call's own latitude/longitude
\* in the result.
C1_AnySecondCallHits ==
    [][(CallStarts /\ CacheKey(lat', lon') \in DOMAIN outcome) => HitEffects]_vars

\* C1 amended: whenever the earlier call for the rounded coordinate returned
\* status "success" (no clear_cache since), the next call for it is a cache
\* hit: no request, hits + 1, misses unchanged, and the call's own
\* latitude/longitude in the result.
C1_SecondCallHits ==
    [][(/\ CallStarts
        /\ CacheKey(lat', lon') \in DOMAIN outcome
        /\ outcome[CacheKey(lat', lon')] = "success") => HitEffects]_vars

\* A hit on an entry that another, cache-equivalent coordinate populated.
C1_Witness ==
    /\ pc = "returned" /\ hit
    /\ CacheKey(lat, lon) \in DOMAIN outcome
    /\ outcome[CacheKey(lat, lon)] = "success"
    /\ cache[CacheKey(lat, lon)].latitude # lat
    /\ ret.latitude = lat /\ ret.longitude = lon

\* C2: every cache entry has status "success"; a call that returns an error
\* result leaves the cache as it was; and a call for a rounded coordinate
\* whose previous call returned an error is a miss that goes to the network
\* again.
C2_ErrorsNeverCached ==
    /\ [](\A k \in DOMAIN cache : cache[k].status = "success")
    /\ []((pc = "returned" /\ ~hit /\ max_retries > 0) => Gets(log) >= 1)
    /\ [][/\ (pc # "returned" /\ pc' = "returned" /\ IsErrorStatus(ret'.status))
               => cache' = cache
          /\ (/\ CallStarts
              /\ CacheKey(lat', lon') \in DOMAIN outcome
              /\ outcome[CacheKey(lat', lon')] = "error")
               => (/\ ~hit'
                   /\ cache_misses' = cache_misses + 1
                   /\ cache_hits' = cache_hits
                   /\ (max_retries' > 0 => pc' = "sleep"))]_vars

\* A call after an error for the same rounded coordinate went to the network
\* and succeeded.
C2_Witness ==
    /\ pc = "returned" /\ ~hit
    /\ CacheKey(lat, lon) \in DOMAIN outcome
    /\ outcome[CacheKey(lat, lon)] = "error"
    /\ Gets(log) >= 1
    /\ ret.status = "success"

\* C3 as stated: no failure of a row's reverse_geocode call leaves the batch
\* loop, so a run never ends Failed with an exception from that call.
C3_RowFailureNeverAborts ==
    ~(b_pc = "Failed" /\ error \in Exceptions)

RECURSIVE FailLog(_, _)
FailLog(i, n) ==
    IF i > n THEN <<>>
    ELSE <<[op |-> "sleep", s |-> 1], [op |-> "get", s |-> 0]>>
         \o (IF i < n THEN <<[op |-> "sleep", s |-> 2^i]>> ELSE <<>>)
         \o FailLog(i + 1, n)

\* C4: a call with max_retries = n >= 1 whose attempts all fail issues exactly
\* n requests, waits 2^i seconds after the i-th failure for i < n and nothing
\* after the last, and returns an "error:" status with all location fields
\* null.
C4_BackoffOnExhaustion ==
    (pc = "returned" /\ ~hit /\ max_retries >= 1 /\ ret.status # "success")
        => /\ Gets(log) = max_retries
           /\ log = FailLog(1, max_retries)
           /\ IsErrorStatus(ret.status)
           /\ LocationFieldsNull(ret)

\* Three failed attempts: waits of 2 s and 4 s between them.
C4_Witness ==
    /\ pc = "returned" /\ ~hit /\ max_retries = 3
    /\ IsErrorStatus(ret.status)
    /\ Len(log) = 8
    /\ log[3] = [op |-> "sleep", s |-> 2]
    /\ log[6] = [op |-> "sleep", s |-> 4]

\* C5: every request is issued right after a 1 s sleep of the same attempt,
\* with at least 1 s slept since the previous request; a cache hit sleeps and
\* requests nothing.
C5_RateLimit ==
    [][/\ (requests' # requests)
            => (/\ pc = "get"
                /\ slept >= 1
                /\ Len(log) >= 1
                /\ log[Len(log)] = [op |-> "sleep", s |-> 1])
       /\ (CallStarts /\ hit')
            => (pc' = "returned" /\ requests' = requests /\ slept' = slept
                /\ log' = <<>>)]_vars

\* About to issue the first request of a later call, after sleeping.
C5_Witness ==
    /\ pc = "get" /\ attempt = 0 /\ calls >= 1 /\ requests >= 1
    /\ slept >= 1

KeyAbsent(k) == ~data.has_address \/ data.address[k] = Absent

\* C6 as stated: in a "success" result every field whose source key is absent
\* from the response is null.
C6_AbsentFieldsAreNull ==
    (pc = "returned" /\ ~hit /\ ret.status = "success")
        => /\ \A k \in {"state", "country", "country_code", "postcode"} :
                KeyAbsent(k) => ret[k] = None
           /\ (\A k \in {"city", "town", "village", "municipality", "hamlet"} :
                KeyAbsent(k)) => ret.city = None
           /\ data.display_name = Absent => ret.display_name = None

ExpectedRow(i) ==
    [id |-> df[i].id, latitude |-> df[i].latitude, longitude |-> df[i].longitude,
     city |-> results[i].city, state |-> results[i].state,
     country |-> results[i].country, country_code |-> results[i].country_code,
     postcode |-> results[i].postcode, display_name |-> results[i].display_name,
     status |-> results[i].status]

C8_SnapshotWriteAtomic ==
    b_pc = "write"
        => \/ output_file = saved
           \/ output_file = Concat(iloc(df, processed), results)

IsDue(p) == p % batch_save_interval = 0 \/ p = Len(df)

LastDue(p) ==
    IF \E s \in 1..p : IsDue(s)
    THEN CHOOSE s \in 1..p : IsDue(s) /\ \A t \in 1..p : IsDue(t) => t <= s
    ELSE 0

\* C9: between rows the snapshot file holds exactly the rows 1..s, s the last
\* processed count that was a multiple of 50 or the total, row i being input
\* row i with the fields of results[i]; nothing if there was no such count.
C9_SnapshotContent ==
    (entry = "ui" /\ b_pc \in {"loop", "call", "save"})
        => LET s == LastDue(IF b_pc = "save" THEN processed - 1 ELSE processed)
           IN  /\ output_file = [i \in 1..s |-> ExpectedRow(i)]
               /\ (b_pc = "save") = (processed >= 1 /\ IsDue(processed)
                                      /\ Len(output_file) < processed)

\* After 51 of 52 rows the snapshot still holds the 50 rows saved at row 50.
C9_Witness ==
    /\ entry = "ui" /\ b_pc = "loop"
    /\ processed = batch_save_interval + 1
    /\ processed < total_rows
    /\ Len(output_file) = batch_save_interval
    /\ output_file[batch_save_interval] = ExpectedRow(batch_save_interval)

\* C10 as stated: at every point of a run the results produced and not in
\* the persisted snapshot number at most N - 1.
C10_UnsavedRowsBounded ==
    (entry = "ui" /\ b_pc # "Completed")
        => Len(results) - Len(output_file) <= batch_save_interval - 1

\* The rounded keys of the first n rows of the input.
KeysOf(n) == {CacheKey(df[i].latitude, df[i].longitude) : i \in 1..n}

\* C11: in a batch on a fresh client with no failing request so far, after
\* any number n of rows: one request has been issued per distinct rounded
\* key of the n rows, misses = that number, hits = n minus it, every row has
\* status "success", and a row whose key equals an earlier row's key has that
\* row's place fields.
C11_OneRequestPerKey ==
    (b_pc \in {"loop", "save", "write", "final_write", "written", "Completed"}
     /\ faults = 0)
        => LET n == Len(results)
           IN  /\ requests = Cardinality(KeysOf(n))
               /\ cache_misses = Cardinality(KeysOf(n))
               /\ cache_hits = n - Cardinality(KeysOf(n))
               /\ \A j \in 1..n :
                    /\ results[j].status = "success"
                    /\ \A i \in 1..(j - 1) :
                         CacheKey(df[i].latitude, df[i].longitude)
                            = CacheKey(df[j].latitude, df[j].longitude)
                         => DropLatLon(results[i]) = DropLatLon(results[j])

\* Rows [P, P', L] with P and P' of one key: one hit, two misses, and row 2
\* with the city of row 1.
C11_Witness ==
    /\ b_pc = "Completed" /\ faults = 0 /\ total_rows = 3
    /\ CacheKey(df[1].latitude, df[1].longitude)
         = CacheKey(df[2].latitude, df[2].longitude)
    /\ df[1].latitude # df[2].latitude
    /\ cache_hits = 1 /\ cache_misses = 2 /\ requests = 2
    /\ results[2].city = results[1].city
    /\ results[3].city # results[1].city

\* C13 as stated: a run that is over and was not rejected for its columns is
\* Completed, also for zero rows (then with zero output rows, successful_count
\* 0 and cache efficiency 0); its successful_count is the number of results
\* with status "success" and its cache efficiency is hits / total_rows * 100.
C13_FinalStatistics ==
    (b_pc \in {"Completed", "Failed"} /\ error \notin ValidationErrors
     /\ Len(results) = total_rows)
        => /\ b_pc = "Completed"
           /\ Len(output_df) = total_rows
           /\ successful_count = CountSuccess(results)
           /\ entry = "ui"
                => /\ cache_efficiency.den > 0
                   /\ cache_efficiency.num * (IF total_rows > 0 THEN total_rows ELSE 1)
                        = (IF total_rows > 0 THEN cache_hits * 100 ELSE 0)
                            * cache_efficiency.den

\* C14 as stated: a run that failed on an unexpected error has reported the
\* error, offers no download, and has left no output file with rows in it.
C14_PartialOutputDiscarded ==
    (b_pc = "Failed" /\ error \notin ValidationErrors)
        => /\ error # None
           /\ download = <<>>
           /\ ~("output" \in on_disk /\ output_file # <<>>)

\* Some input column equals the name when both are lower-cased.
MatchesIgnoringCase(name) ==
    \E i \in DOMAIN columns : Lower(columns[i]) = Lower(name)

\* C15 as stated: in both entry points a run is rejected with a validation
\* error exactly when no column matches the latitude name or no column
\* matches the longitude name, letter case ignored; and it is rejected before
\* any request.
C15_ValidationIgnoresCase ==
    b_pc \notin {"off", "start"}
        => /\ (b_pc = "Failed" /\ error \in ValidationErrors)
                <=> ~(/\ MatchesIgnoringCase(lat_column)
                      /\ MatchesIgnoringCase(lon_column))
           /\ (b_pc = "Failed" /\ error \in ValidationErrors)
                => requests = 0 /\ cache_misses = 0

\* A clear_cache step of the caller (no other step leaves last_op at
\* "clear_cache" while no call is in progress).
ClearStep == pc = "idle" /\ last_op' = "clear_cache"

\* C12: right after clear_cache, whatever the state before it, the cache is
\* empty and both counters are zero; and the next call for a coordinate that
\* was cached before the clear is a miss that makes the miss counter 1,
\* leaves the hit counter 0 and goes to the network.
C12_ClearCacheResets ==
    /\ [](last_op = "clear_cache"
            => DOMAIN cache = {} /\ cache_hits = 0 /\ cache_misses = 0)
    /\ [][(CallStarts /\ CacheKey(lat', lon') \in dropped)
            => (/\ ~hit'
                /\ cache_misses' = 1
                /\ cache_hits' = 0
                /\ cache' = cache
                /\ (max_retries' > 0 => pc' = "sleep"))]_vars

\* A request is about to go out for a coordinate that was cached before the
\* clear.
C12_Witness ==
    /\ pc = "get" /\ ~hit
    /\ CacheKey(lat, lon) \in dropped
    /\ cache_misses = 1 /\ cache_hits = 0
    /\ calls >= 1

\* The first of the five city keys, in the documented order, that is present.
FirstPresent(address) ==
    IF address["city"] # Absent THEN address["city"]
    ELSE IF address["town"] # Absent THEN address["town"]
    ELSE IF address["village"] # Absent THEN address["village"]
    ELSE IF address["municipality"] # Absent THEN address["municipality"]
    ELSE IF address["hamlet"] # Absent THEN address["hamlet"]
    ELSE None

\* C16: the city of a result is the value of the first key present among
\* city, town, village, municipality, hamlet, in that order, and null when
\* none of them is present.
C16_CityPriority ==
    (pc = "returned" /\ data.has_address /\ ret.status = "success")
        => ret.city = FirstPresent(data.address)

\* Town and village both present, city absent: the town wins.
C16_Witness ==
    /\ pc = "returned" /\ ret.status = "success"
    /\ data.address["city"] = Absent
    /\ data.address["town"] = "Cluny"
    /\ data.address["village"] = "Taize"
    /\ data.address["hamlet"] = "Le Bourg"
    /\ ret.city = "Cluny"

\* C17: a miss never issues more than max_retries requests and always has a
\* next step until it has returned; when attempt k is the first to succeed
\* the call has issued exactly k requests, the last thing it did is that
\* request, the result is in the cache under the call's rounded key, and the
\* result carries the call's own latitude and longitude.
C17_StopsAtFirstSuccess ==
    /\ (pc # "idle" /\ ~hit)
          => /\ Gets(log) <= max_retries
             /\ Len(log) <= 3 * max_retries
    /\ pc \in {"sleep", "get", "backoff"}
          => /\ Gets(log) = (IF pc = "backoff" THEN attempt + 1 ELSE attempt)
             /\ Gets(log) < max_retries
             /\ ENABLED NetworkStep
    /\ (pc = "returned" /\ ~hit /\ ret.status = "success")
          => /\ Gets(log) = attempt + 1
             /\ log = SubSeq(FailLog(1, max_retries), 1, 3 * (attempt + 1) - 1)
             /\ log[Len(log)].op = "get"
             /\ CacheKey(lat, lon) \in DOMAIN cache
             /\ cache[CacheKey(lat, lon)] = ret
             /\ ret.latitude = lat /\ ret.longitude = lon

\* The second of three allowed attempts succeeded, for a coordinate that is
\* not its own rounded key.
C17_Witness ==
    /\ pc = "returned" /\ ~hit /\ ret.status = "success"
    /\ max_retries = 3 /\ attempt = 1 /\ Gets(log) = 2
    /\ CacheKey(lat, lon) # <<lat, lon>>
    /\ cache[CacheKey(lat, lon)] = ret

\* C18: a call with max_retries = 0 for an uncached coordinate returns at
\* once: no request, no sleep, the miss counter up by one, the hit counter
\* and the cache as they were, a status that starts with "error:" and every
\* location field null.
C18_ZeroRetries ==
    [][(/\ CallStarts
        /\ max_retries' = 0
        /\ CacheKey(lat', lon') \notin DOMAIN cache)
          => (/\ pc' = "returned"
              /\ requests' = requests /\ slept' = slept /\ log' = <<>>
              /\ cache_misses' = cache_misses + 1
              /\ cache_hits' = cache_hits
              /\ cache' = cache
              /\ IsErrorStatus(ret'.status)
              /\ LocationFieldsNull(ret')
              /\ ret'.latitude = lat' /\ ret'.longitude = lon')]_vars

\* Such a call on a client whose cache already holds another coordinate.
C18_Witness ==
    /\ pc = "returned" /\ ~hit /\ max_retries = 0
    /\ log = <<>>
    /\ DOMAIN cache # {}
    /\ CacheKey(lat, lon) \notin DOMAIN cache
    /\ IsErrorStatus(ret.status)

\* C19: hits + misses is the number of reverse_geocode calls made since
\* construction or the last clear_cache, each call adding one to exactly one
\* of the two counters; the cache never holds more entries than there were
\* misses; and get_cache_stats reports the counters, their sum and the number
\* of entries, and changes neither the cache nor the counters.
C19_CounterAccounting ==
    /\ [](cache_hits + cache_misses = started)
    /\ [](Cardinality(DOMAIN cache) <= cache_misses)
    /\ [](last_op = "get_cache_stats"
            => /\ stats.hits = cache_hits
               /\ stats.misses = cache_misses
               /\ stats.total_requests = cache_hits + cache_misses
               /\ stats.size = Cardinality(DOMAIN cache))
    /\ [][/\ CallStarts
            => \/ cache_hits' = cache_hits + 1 /\ cache_misses' = cache_misses
               \/ cache_hits' = cache_hits /\ cache_misses' = cache_misses + 1
          /\ ~CallStarts /\ ~ClearStep
            => cache_hits' = cache_hits /\ cache_misses' = cache_misses
          /\ (pc = "idle" /\ last_op' = "get_cache_stats")
            => UNCHANGED client_vars]_vars

\* Statistics read after a hit, a stored miss and a miss that failed.
C19_Witness ==
    /\ last_op = "get_cache_stats"
    /\ stats.hits = 1 /\ stats.misses = 2 /\ stats.size = 1
    /\ stats.total_requests = 3

\* C20: a populated key keeps its template through every step but
\* clear_cache; a hit changes the hit counter and nothing else of the client
\* and returns the template's place fields; and the cache is only ever
\* written for a key it does not hold, with the coordinates of the call that
\* writes it.
C20_TemplateFrozen ==
    [][/\ ~ClearStep
            => \A k \in DOMAIN cache :
                  k \in DOMAIN cache' /\ cache'[k] = cache[k]
       /\ (CallStarts /\ hit')
            => /\ cache' = cache
               /\ cache_misses' = cache_misses
               /\ cache_hits' = cache_hits + 1
               /\ DropLatLon(ret') = DropLatLon(cache[CacheKey(lat', lon')])
       /\ (cache' # cache /\ ~ClearStep)
            => /\ ~hit
               /\ CacheKey(lat, lon) \notin DOMAIN cache
               /\ DOMAIN cache' = DOMAIN cache \cup {CacheKey(lat, lon)}
               /\ cache'[CacheKey(lat, lon)].latitude = lat
               /\ cache'[CacheKey(lat, lon)].longitude = lon]_vars

\* The second hit on a key, from a coordinate other than the one whose
\* request populated it.
C20_Witness ==
    /\ pc = "returned" /\ hit
    /\ cache_hits = 2 /\ cache_misses = 1
    /\ cache[CacheKey(lat, lon)].latitude = NYa[1]
    /\ lat = NYb[1]
    /\ DropLatLon(ret) = DropLatLon(cache[CacheKey(lat, lon)])

====
